---- MODULE Spec2Model ----
(***************************************************************************)
(* NET pipe puzzle: NetGameLogic (net_logic.py) and the playback part of   *)
(* NetGameUI (net_ui.py).                                                   *)
(*                                                                          *)
(* A grid is a function from cells <<x, y>> to connection masks 0..15; the  *)
(* Python expression grid[y][x] is g[<<x, y>>].  The three grid objects of  *)
(* a session (self.grid, self.solution, self.initial_scrambled_grid) are    *)
(* references into a heap of list objects, so that an in-place write        *)
(* self.grid[y][x] = v is a write to the object self.grid names.            *)
(*                                                                          *)
(* Left out, because nothing reads them back into the grids: cell_size,     *)
(* the labels and canvas, NetGameLogic's scrambled_state_for_greedy and     *)
(* greedy_* fields, and NetGameUI.greedy_step_count, which is only read in  *)
(* the statement after it was set to len(moves).                            *)
(***************************************************************************)
EXTENDS Integers, Sequences, FiniteSets, TLC

VARIABLES
    width, height, server_pos,      \* NetGameLogic dimensions and server cell
    heap,                           \* list objects: address -> grid value
    grid, solution,                 \* addresses of self.grid, self.solution
    initial_scrambled_grid,         \* address of the snapshot
    tile_types,                     \* cell -> TileType
    user_move_count,
    solving_animation_running,      \* NetGameLogic.solving_animation_running
    visited,                        \* new_game's local: the set of visited cells
    visit_count,                    \* new_game's local: number of visited.add calls + 1
    ui_running,                     \* NetGameUI.solving_animation_running
    greedy_solution_moves,          \* NetGameUI plan
    greedy_animation_index,
    timers,                         \* pending root.after(1000, animate_greedy_step)
    ret                             \* what the last rotation call returned or raised,
                                    \* "List" after solve_with_tree_dp(start_grid),
                                    \* "None" after any other call that assigns

vars == <<width, height, server_pos, heap, grid, solution, initial_scrambled_grid,
          tile_types, user_move_count, solving_animation_running, visited,
          visit_count, ui_running,
          greedy_solution_moves, greedy_animation_index, timers, ret>>

logic_vars == <<width, height, server_pos, heap, grid, solution,
                initial_scrambled_grid, tile_types, user_move_count,
                solving_animation_running, visited, visit_count>>

ui_vars == <<ui_running, greedy_solution_moves, greedy_animation_index, timers>>

----------------------------------------------------------------------------
(* Direction and TileType *)

NONE == 0
UP == 1
RIGHT == 2
DOWN == 4
LEFT == 8

BLANK == 0
ENDPOINT == 1
SERVER == 2
JUNCTION == 3

Masks == 0..15

\* direction & bit, for a single-bit `bit`
HasBit(m, bit) == (m \div bit) % 2 = 1

\* direction | bit, for a single-bit `bit`
OrBit(m, bit) == IF HasBit(m, bit) THEN m ELSE m + bit

\* bin(m).count('1')
PopCount(m) == (m % 2) + ((m \div 2) % 2) + ((m \div 4) % 2) + ((m \div 8) % 2)

\* rotate_direction without its last test: LEFT is not carried round to UP
rotate_direction_nowrap(direction) ==
    LET r1 == IF HasBit(direction, UP) THEN OrBit(NONE, RIGHT) ELSE NONE
        r2 == IF HasBit(direction, RIGHT) THEN OrBit(r1, DOWN) ELSE r1
        r3 == IF HasBit(direction, DOWN) THEN OrBit(r2, LEFT) ELSE r2
    IN  r3

\* rotate_direction: 90 degrees clockwise
rotate_direction(direction) ==
    LET r1 == IF HasBit(direction, UP) THEN OrBit(NONE, RIGHT) ELSE NONE
        r2 == IF HasBit(direction, RIGHT) THEN OrBit(r1, DOWN) ELSE r1
        r3 == IF HasBit(direction, DOWN) THEN OrBit(r2, LEFT) ELSE r2
        r4 == IF HasBit(direction, LEFT) THEN OrBit(r3, UP) ELSE r3
    IN  r4

\* rotate_direction_ccw: 90 degrees counter-clockwise
rotate_direction_ccw(direction) ==
    LET r1 == IF HasBit(direction, UP) THEN OrBit(NONE, LEFT) ELSE NONE
        r2 == IF HasBit(direction, LEFT) THEN OrBit(r1, DOWN) ELSE r1
        r3 == IF HasBit(direction, DOWN) THEN OrBit(r2, RIGHT) ELSE r2
        r4 == IF HasBit(direction, RIGHT) THEN OrBit(r3, UP) ELSE r3
    IN  r4

\* `n` applications of rotate_direction
RECURSIVE RotateTimes(_, _)
RotateTimes(m, n) == IF n = 0 THEN m ELSE RotateTimes(rotate_direction(m), n - 1)

\* the (dx, dy, direction, opposite) table used by new_game, solve_with_tree_dp
\* and get_connected_cells
directions ==
    << <<0, -1, UP, DOWN>>, <<1, 0, RIGHT, LEFT>>,
       <<0, 1, DOWN, UP>>, <<-1, 0, LEFT, RIGHT>> >>

----------------------------------------------------------------------------
(* Grids *)

Cells(w, h) == (0..(w - 1)) \X (0..(h - 1))

InBounds(x, y, w, h) == 0 <= x /\ x < w /\ 0 <= y /\ y < h

\* a list object holding the values of f: the function f written out cell by cell
RECURSIVE ListOver(_, _)
ListOver(f, cells) ==
    IF cells = {} THEN <<>>
    ELSE LET c == CHOOSE k \in cells : TRUE
         IN  (c :> f[c]) @@ ListOver(f, cells \ {c})

NewList(f) == ListOver(f, DOMAIN f)

\* [[Direction.NONE for _ in range(width)] for _ in range(height)]
EmptyGrid(w, h) == NewList([c \in Cells(w, h) |-> NONE])

\* (width // 2, height // 2)
Center(w, h) == <<w \div 2, h \div 2>>

----------------------------------------------------------------------------
(* Bounds *)

\* largest number of cells of a grid in Spec
MaxCells == 4

\* user_move_count stops growing here
MaxMoves == 2

\* largest number of cells of a grid in SpecUI
UIMaxCells == 2

\* largest number of cells of a grid in SpecGen
GenMaxCells == 6

\* largest number of cells of a grid in SpecSolve
SolveMaxCells == 4

\* largest number of cells of a grid in SpecConn
ConnMaxCells == 4

\* largest number of pending root.after callbacks
MaxTimers == 1

Sizes(n) == { s \in (1..n) \X (1..n) : s[1] * s[2] <= n }

\* coordinates handed to left_rotate_at / right_rotate_at: in bounds, wrapping
\* negative, and out of range on either side
Coords(n) == (0 - n - 1)..n

\* the coordinates among them that index a list of length n without raising
Accepted(n) == (0 - n)..(n - 1)

----------------------------------------------------------------------------
(* new_game: the spanning tree *)

\* random.shuffle(directions): every order of the four entries
Shuffles ==
    { <<directions[p[1]], directions[p[2]], directions[p[3]], directions[p[4]]>> :
        p \in { q \in [1..4 -> 1..4] : \A i, j \in 1..4 : q[i] = q[j] => i = j } }

\* Connect with the neighbour's side forgotten: only grid[y][x] |= d
Connect_oneway(g, c, n, d, o) == [g EXCEPT ![c] = OrBit(@, d)]

\* grid[y][x] |= d ; grid[ny][nx] |= o
Connect(g, c, n, d, o) == [g EXCEPT ![c] = OrBit(@, d), ![n] = OrBit(@, o)]

\* the loop over the shuffled directions that attaches the server's first branches
RECURSIVE InitialBranches(_, _, _, _, _, _, _, _, _, _)
InitialBranches(g, vis, cnt, stack, dirs, i, branches, s, w, h) ==
    IF i > 4 \/ branches = 0
    THEN [grid |-> g, visited |-> vis, count |-> cnt, stack |-> stack]
    ELSE LET e == dirs[i]
             n == <<s[1] + e[1], s[2] + e[2]>>
         IN  IF InBounds(n[1], n[2], w, h)
             THEN InitialBranches(Connect(g, s, n, e[3], e[4]), vis \cup {n}, cnt + 1,
                                  Append(stack, n), dirs, i + 1, branches - 1, s, w, h)
             ELSE InitialBranches(g, vis, cnt, stack, dirs, i + 1, branches, s, w, h)

\* the in-bounds unvisited neighbours of the top of the stack
Neighbors(c, vis, w, h) ==
    { e \in { <<c[1] + d[1], c[2] + d[2], d[3], d[4]>> : d \in { directions[i] : i \in 1..4 } } :
        InBounds(e[1], e[2], w, h) /\ <<e[1], e[2]>> \notin vis }

\* the while-stack loop: every result random.choice(neighbors) can lead to
RECURSIVE GrowTree(_, _, _, _, _, _)
GrowTree(g, vis, cnt, stack, w, h) ==
    IF stack = <<>>
    THEN { [grid |-> g, visited |-> vis, count |-> cnt] }
    ELSE LET c == stack[Len(stack)]
             nbrs == Neighbors(c, vis, w, h)
         IN  IF nbrs = {}
             THEN GrowTree(g, vis, cnt, SubSeq(stack, 1, Len(stack) - 1), w, h)
             ELSE UNION { GrowTree(Connect(g, c, <<e[1], e[2]>>, e[3], e[4]),
                                   vis \cup {<<e[1], e[2]>>}, cnt + 1,
                                   Append(stack, <<e[1], e[2]>>), w, h) : e \in nbrs }

\* the while loop started from what the initial-branch loop left
GrowFrom(b, w, h) == GrowTree(b.grid, b.visited, b.count, b.stack, w, h)

\* the branch count drawn from [1, 3]
BranchChoices_low == {1, 3}

\* random.choice([2, 3])
BranchChoices == {2, 3}

\* every tree new_game can build on a w x h grid with the server at s
Trees(s, w, h) ==
    UNION { GrowFrom(InitialBranches(EmptyGrid(w, h), {s}, 1, <<>>,
                                     dirs, 1, branches, s, w, h), w, h)
          : dirs \in Shuffles, branches \in BranchChoices }

\* Classify without tile_types[sy][sx] = TileType.SERVER and the skip of the
\* server in the loop: the server classified by its degree like any cell
Classify_bydegree(g, s, w, h) ==
    NewList([c \in Cells(w, h) |->
        IF g[c] # NONE
        THEN (IF PopCount(g[c]) = 1 THEN ENDPOINT ELSE JUNCTION)
        ELSE BLANK])

\* the classification loop of new_game
Classify(g, s, w, h) ==
    NewList([c \in Cells(w, h) |->
        IF c = s THEN SERVER
        ELSE IF g[c] # NONE
             THEN (IF PopCount(g[c]) = 1 THEN ENDPOINT ELSE JUNCTION)
             ELSE BLANK])

\* the cells the scramble loop rotates
ScrambleCells(g, s, w, h) == { c \in Cells(w, h) : c # s /\ g[c] # NONE }

\* a scramble that may leave a tile unturned: randint(0, 3)
ScrambleCounts_zero == 0..3

\* random.randint(1, 3)
ScrambleCounts == 1..3

\* n shifts of the mask to the next bit, the bit past LEFT dropped instead of
\* wrapped to UP
RECURSIVE ShiftTimes(_, _)
ShiftTimes(m, n) == IF n = 0 THEN m ELSE ShiftTimes((m * 2) % 16, n - 1)

\* Scramble with the rotation done as a shift that does not wrap
Scramble_shift(g, r, w, h) ==
    NewList([c \in Cells(w, h) |-> IF c \in DOMAIN r THEN ShiftTimes(g[c], r[c]) ELSE g[c]])

\* the scramble loop, rotating cell c clockwise r[c] times
Scramble(g, r, w, h) ==
    NewList([c \in Cells(w, h) |-> IF c \in DOMAIN r THEN RotateTimes(g[c], r[c]) ELSE g[c]])

----------------------------------------------------------------------------
(* The session: NetGameLogic *)

\* addresses of the list objects a session holds
Addr == 1..3

\* a new list object: an address no live reference names
Alloc(live) == CHOOSE a \in Addr \ live : \A b \in Addr \ live : a <= b

\* clone_grid returning its argument: no copy is made
clone_grid_alias(hp, src, live, w, h) == [heap |-> hp, ref |-> src]

\* clone_grid: a new object with the cells of hp[src], read over the session's
\* width and height
clone_grid(hp, src, live, w, h) ==
    LET a == Alloc(live)
    IN  [heap |-> [hp EXCEPT ![a] = NewList([c \in Cells(w, h) |-> hp[src][c]])],
         ref |-> a]

Logic ==
    [width |-> width, height |-> height, server_pos |-> server_pos, heap |-> heap,
     grid |-> grid, solution |-> solution,
     initial_scrambled_grid |-> initial_scrambled_grid, tile_types |-> tile_types,
     user_move_count |-> user_move_count,
     solving_animation_running |-> solving_animation_running,
     visited |-> visited, visit_count |-> visit_count]

SetLogic(L) ==
    /\ width' = L.width
    /\ height' = L.height
    /\ server_pos' = L.server_pos
    /\ heap' = L.heap
    /\ grid' = L.grid
    /\ solution' = L.solution
    /\ initial_scrambled_grid' = L.initial_scrambled_grid
    /\ tile_types' = L.tile_types
    /\ user_move_count' = L.user_move_count
    /\ solving_animation_running' = L.solving_animation_running
    /\ visited' = L.visited
    /\ visit_count' = L.visit_count

\* what new_game builds for tree t and scramble counts r: the scrambled grid,
\* the solution, the classification and the final values of its locals
Outcome(t, r, s, w, h) ==
    [scrambled |-> Scramble(t.grid, r, w, h), solution |-> t.grid,
     tile_types |-> Classify(t.grid, s, w, h),
     visited |-> t.visited, visit_count |-> t.count]

\* every outcome of the random choices of new_game on a w x h grid with server s
Outcomes(s, w, h) ==
    UNION { { Outcome(t, r, s, w, h) : r \in [ScrambleCells(t.grid, s, w, h) -> ScrambleCounts] }
          : t \in Trees(s, w, h) }

\* Outcomes, worked out once for the sizes the specifications use
RECURSIVE TableOver(_)
TableOver(keys) ==
    IF keys = {} THEN <<>>
    ELSE LET k == CHOOSE j \in keys : TRUE
         IN  (k :> Outcomes(k[1], k[2], k[3])) @@ TableOver(keys \ {k})

OutcomeTable ==
    TableOver({ <<Center(z[1], z[2]), z[1], z[2]>> : z \in Sizes(MaxCells) \cup Sizes(UIMaxCells) \cup Sizes(SolveMaxCells) })

OutcomesOf(s, w, h) ==
    IF <<s, w, h>> \in DOMAIN OutcomeTable THEN OutcomeTable[<<s, w, h>>]
    ELSE Outcomes(s, w, h)

\* Generated with self.solution = self.grid in place of the cell-by-cell copy:
\* one list object under both names, scrambled in place
Generated_shared(L, o) ==
    LET w == L.width
        h == L.height
        g == Alloc({})
        h1 == [L.heap EXCEPT ![g] = o.scrambled]
        cl == clone_grid(h1, g, {g}, w, h)
    IN  [L EXCEPT !.user_move_count = 0,
                  !.solving_animation_running = FALSE,
                  !.heap = cl.heap,
                  !.grid = g,
                  !.solution = g,
                  !.initial_scrambled_grid = cl.ref,
                  !.tile_types = o.tile_types,
                  !.visited = o.visited,
                  !.visit_count = o.visit_count]

\* the session new_game leaves for outcome o
Generated(L, o) ==
    LET w == L.width
        h == L.height
        g == Alloc({})
        s == Alloc({g})
        h1 == [L.heap EXCEPT ![g] = o.scrambled, ![s] = o.solution]
        cl == clone_grid(h1, g, {g, s}, w, h)
    IN  [L EXCEPT !.user_move_count = 0,
                  !.solving_animation_running = FALSE,
                  !.heap = cl.heap,
                  !.grid = g,
                  !.solution = s,
                  !.initial_scrambled_grid = cl.ref,
                  !.tile_types = o.tile_types,
                  !.visited = o.visited,
                  !.visit_count = o.visit_count]

\* new_game: every session it can leave
new_game(L) == { Generated(L, o) : o \in OutcomesOf(L.server_pos, L.width, L.height) }

\* change_size
change_size(L, w, h) ==
    new_game([L EXCEPT !.width = w, !.height = h, !.server_pos = Center(w, h)])

\* self.initial_scrambled_grid = None
NoSnapshot == 0

\* restart_game
restart_game(L) ==
    IF L.initial_scrambled_grid = NoSnapshot THEN L
    ELSE LET cl == clone_grid(L.heap, L.initial_scrambled_grid,
                              {L.solution, L.initial_scrambled_grid}, L.width, L.height)
         IN  [L EXCEPT !.user_move_count = 0, !.solving_animation_running = FALSE,
                       !.heap = cl.heap, !.grid = cl.ref]

\* Python list indexing: i for 0 <= i < n, n + i for -n <= i < 0, else IndexError (-1 here)
PyIndex(i, n) ==
    IF 0 <= i /\ i < n THEN i
    ELSE IF 0 - n <= i /\ i < 0 THEN n + i
    ELSE -1

\* the cell self.grid[y][x] names, or <<-1, -1>> when the expression raises IndexError
PyCell(x, y, w, h) ==
    IF PyIndex(y, h) = -1 \/ PyIndex(x, w) = -1 THEN <<-1, -1>>
    ELSE <<PyIndex(x, w), PyIndex(y, h)>>

Raises(x, y, w, h) == PyCell(x, y, w, h) = <<-1, -1>>

\* self.grid[y][x] = v on the object at address a
Store(hp, a, c, v) == [hp EXCEPT ![a] = [@ EXCEPT ![c] = v]]

\* left_rotate_at without self.user_move_count += 1
left_rotate_at_uncounted(L, x, y) ==
    LET c == PyCell(x, y, L.width, L.height)
    IN  IF Raises(x, y, L.width, L.height) THEN [logic |-> L, ret |-> "IndexError"]
        ELSE IF L.heap[L.grid][c] = NONE THEN [logic |-> L, ret |-> "False"]
        ELSE [logic |-> [L EXCEPT !.heap = Store(L.heap, L.grid, c,
                                                 rotate_direction(L.heap[L.grid][c]))],
              ret |-> "True"]

\* left_rotate_at: the session it leaves and what it returns
left_rotate_at(L, x, y) ==
    LET c == PyCell(x, y, L.width, L.height)
    IN  IF Raises(x, y, L.width, L.height) THEN [logic |-> L, ret |-> "IndexError"]
        ELSE IF L.heap[L.grid][c] = NONE THEN [logic |-> L, ret |-> "False"]
        ELSE [logic |-> [L EXCEPT !.heap = Store(L.heap, L.grid, c,
                                                 rotate_direction(L.heap[L.grid][c])),
                                  !.user_move_count = @ + 1],
              ret |-> "True"]

\* right_rotate_at
right_rotate_at(L, x, y) ==
    LET c == PyCell(x, y, L.width, L.height)
    IN  IF Raises(x, y, L.width, L.height) THEN [logic |-> L, ret |-> "IndexError"]
        ELSE IF L.heap[L.grid][c] = NONE THEN [logic |-> L, ret |-> "False"]
        ELSE [logic |-> [L EXCEPT !.heap = Store(L.heap, L.grid, c,
                                                 rotate_direction_ccw(L.heap[L.grid][c])),
                                  !.user_move_count = @ + 1],
              ret |-> "True"]

\* check_win
check_win(L) ==
    \A c \in Cells(L.width, L.height) : L.heap[L.grid][c] = L.heap[L.solution][c]

\* get_connected_cells: the DFS with its explicit stack
RECURSIVE ConnectedLoop(_, _, _, _, _)
\* one pass over the four directions from cell c, starting at direction i
RECURSIVE ConnectedScan(_, _, _, _, _, _, _)
ConnectedScan(g, connected, stack, c, i, w, h) ==
    IF i > 4 THEN ConnectedLoop(g, connected, stack, w, h)
    ELSE LET d == directions[i]
             n == <<c[1] + d[1], c[2] + d[2]>>
         IN  IF /\ HasBit(g[c], d[3])
                /\ InBounds(n[1], n[2], w, h)
                /\ n \notin connected
                /\ HasBit(g[n], d[4])
             THEN ConnectedScan(g, connected \cup {n}, Append(stack, n), c, i + 1, w, h)
             ELSE ConnectedScan(g, connected, stack, c, i + 1, w, h)

ConnectedLoop(g, connected, stack, w, h) ==
    IF stack = <<>> THEN connected
    ELSE ConnectedScan(g, connected, SubSeq(stack, 1, Len(stack) - 1),
                       stack[Len(stack)], 1, w, h)

\* the DFS without the test self.grid[ny][nx] & opposite
RECURSIVE ConnectedLoopOneWay(_, _, _, _, _)
RECURSIVE ConnectedScanOneWay(_, _, _, _, _, _, _)
ConnectedScanOneWay(g, connected, stack, c, i, w, h) ==
    IF i > 4 THEN ConnectedLoopOneWay(g, connected, stack, w, h)
    ELSE LET d == directions[i]
             n == <<c[1] + d[1], c[2] + d[2]>>
         IN  IF /\ HasBit(g[c], d[3])
                /\ InBounds(n[1], n[2], w, h)
                /\ n \notin connected
             THEN ConnectedScanOneWay(g, connected \cup {n}, Append(stack, n), c, i + 1, w, h)
             ELSE ConnectedScanOneWay(g, connected, stack, c, i + 1, w, h)

ConnectedLoopOneWay(g, connected, stack, w, h) ==
    IF stack = <<>> THEN connected
    ELSE ConnectedScanOneWay(g, connected, SubSeq(stack, 1, Len(stack) - 1),
                             stack[Len(stack)], 1, w, h)

get_connected_cells_oneway(L) ==
    ConnectedLoopOneWay(L.heap[L.grid], {L.server_pos}, <<L.server_pos>>, L.width, L.height)

get_connected_cells(L) ==
    ConnectedLoop(L.heap[L.grid], {L.server_pos}, <<L.server_pos>>, L.width, L.height)

----------------------------------------------------------------------------
(* solve_with_tree_dp *)

\* float('inf')
Inf == -1

Plus(a, b) == IF a = Inf \/ b = Inf THEN Inf ELSE a + b

Less(a, b) == a # Inf /\ (b = Inf \/ a < b)

Min(a, b) == IF a <= b THEN a ELSE b

\* Phase 1: adj[c], the neighbours the solution mask of c points at, in table order
RECURSIVE AdjFrom(_, _, _, _, _)
AdjFrom(sol, c, i, w, h) ==
    IF i > 4 THEN <<>>
    ELSE LET d == directions[i]
             n == <<c[1] + d[1], c[2] + d[2]>>
         IN  IF HasBit(sol[c], d[3]) /\ InBounds(n[1], n[2], w, h)
             THEN <<n>> \o AdjFrom(sol, c, i + 1, w, h)
             ELSE AdjFrom(sol, c, i + 1, w, h)

adj(sol, c, w, h) == IF sol[c] = NONE THEN <<>> ELSE AdjFrom(sol, c, 1, w, h)

\* parent = None at the root
NoParent == <<>>

RECURSIVE solve_subtree(_, _, _, _, _, _)
RECURSIVE ChildCosts(_, _, _, _, _, _, _)
RECURSIVE BestRotation(_, _, _, _, _, _, _, _, _, _, _)

\* the sum of solve_subtree(child, node)[0] over the children of node from index k on
ChildCosts(node, parent, k, start, sol, w, h) ==
    LET a == adj(sol, node, w, h)
    IN  IF k > Len(a) THEN 0
        ELSE IF a[k] = parent THEN ChildCosts(node, parent, k + 1, start, sol, w, h)
        ELSE Plus(solve_subtree(a[k], node, start, sol, w, h).cost,
                  ChildCosts(node, parent, k + 1, start, sol, w, h))

\* the loop over the four (state, rot_cw) pairs
BestRotation(node, parent, state, rot_cw, best_cost, best_rotation, target, start, sol, w, h) ==
    IF rot_cw > 3 THEN [cost |-> best_cost, rotation |-> best_rotation]
    ELSE IF state # target
         THEN BestRotation(node, parent, rotate_direction(state), rot_cw + 1,
                           best_cost, best_rotation, target, start, sol, w, h)
         ELSE LET rot_ccw == (4 - rot_cw) % 4
                  tile_cost == Min(rot_cw, rot_ccw)
                  total == Plus(tile_cost, ChildCosts(node, parent, 1, start, sol, w, h))
              IN  IF Less(total, best_cost)
                  THEN BestRotation(node, parent, rotate_direction(state), rot_cw + 1,
                                    total, rot_cw, target, start, sol, w, h)
                  ELSE BestRotation(node, parent, rotate_direction(state), rot_cw + 1,
                                    best_cost, best_rotation, target, start, sol, w, h)

solve_subtree(node, parent, start, sol, w, h) ==
    BestRotation(node, parent, start[node], 0, Inf, 0, sol[node], start, sol, w, h)

\* while m != target and cnt < 4: m = rotate(m); cnt += 1 -- with rotate clockwise
RECURSIVE CwCount(_, _, _)
CwCount(m, target, cnt) ==
    IF m # target /\ cnt < 4 THEN CwCount(rotate_direction(m), target, cnt + 1) ELSE cnt

\* the same loop with rotate_direction_ccw
RECURSIVE CcwCount(_, _, _)
CcwCount(m, target, cnt) ==
    IF m # target /\ cnt < 4 THEN CcwCount(rotate_direction_ccw(m), target, cnt + 1) ELSE cnt

\* [move] * n
RECURSIVE Repeat(_, _)
Repeat(move, n) == IF n <= 0 THEN <<>> ELSE <<move>> \o Repeat(move, n - 1)

\* TileMoves with the two labels exchanged: 'ccw' for the clockwise count
TileMoves_swapped(node, current, target) ==
    IF current # target
    THEN LET cw_cnt == CwCount(current, target, 0)
             ccw_cnt == CcwCount(current, target, 0)
         IN  IF cw_cnt <= ccw_cnt
             THEN Repeat(<<node[1], node[2], "ccw">>, cw_cnt)
             ELSE Repeat(<<node[1], node[2], "cw">>, ccw_cnt)
    ELSE <<>>

\* TileMoves without the counter-clockwise alternative
TileMoves_cw_only(node, current, target) ==
    IF current # target
    THEN Repeat(<<node[1], node[2], "cw">>, CwCount(current, target, 0))
    ELSE <<>>

\* TileMoves with cw_cnt < ccw_cnt for the test: equal counts go counter-clockwise
TileMoves_strict(node, current, target) ==
    IF current # target
    THEN LET cw_cnt == CwCount(current, target, 0)
             ccw_cnt == CcwCount(current, target, 0)
         IN  IF cw_cnt < ccw_cnt
             THEN Repeat(<<node[1], node[2], "cw">>, cw_cnt)
             ELSE Repeat(<<node[1], node[2], "ccw">>, ccw_cnt)
    ELSE <<>>

\* the moves collect_moves emits for one node
TileMoves(node, current, target) ==
    IF current # target
    THEN LET cw_cnt == CwCount(current, target, 0)
             ccw_cnt == CcwCount(current, target, 0)
         IN  IF cw_cnt <= ccw_cnt
             THEN Repeat(<<node[1], node[2], "cw">>, cw_cnt)
             ELSE Repeat(<<node[1], node[2], "ccw">>, ccw_cnt)
    ELSE <<>>

RECURSIVE collect_moves(_, _, _, _, _, _)
RECURSIVE CollectChildren(_, _, _, _, _, _, _)

CollectChildren(node, parent, k, start, sol, w, h) ==
    LET a == adj(sol, node, w, h)
    IN  IF k > Len(a) THEN <<>>
        ELSE IF a[k] # parent
             THEN collect_moves(a[k], node, start, sol, w, h)
                  \o CollectChildren(node, parent, k + 1, start, sol, w, h)
             ELSE CollectChildren(node, parent, k + 1, start, sol, w, h)

collect_moves(node, parent, start, sol, w, h) ==
    TileMoves(node, start[node], sol[node])
    \o CollectChildren(node, parent, 1, start, sol, w, h)

\* solve_with_tree_dp(start_grid), and greedy_solve_full, which only calls it
solve_with_tree_dp(L, start) ==
    collect_moves(L.server_pos, NoParent, start, L.heap[L.solution], L.width, L.height)

greedy_solve_full(L, start) == solve_with_tree_dp(L, start)

\* what the call at the root, solve_subtree(root, None), returns
RootCost(L, start) ==
    solve_subtree(L.server_pos, NoParent, start, L.heap[L.solution], L.width, L.height)

\* the playback step of solve_now and animate_greedy_step:
\* grid[y][x] = rotate_direction(grid[y][x]) for 'cw', rotate_direction_ccw otherwise
ApplyMove(g, move) ==
    LET c == <<move[1], move[2]>>
    IN  [g EXCEPT ![c] = IF move[3] = "cw" THEN rotate_direction(@)
                         ELSE rotate_direction_ccw(@)]

RECURSIVE ApplyMoves(_, _, _)
ApplyMoves(g, moves, k) ==
    IF k > Len(moves) THEN g ELSE ApplyMoves(ApplyMove(g, moves[k]), moves, k + 1)

----------------------------------------------------------------------------
(* The session's operations as steps *)

\* __init__ up to its last statement: the fields set, the three grids empty
Fields(w, h) ==
    [width |-> w, height |-> h, server_pos |-> Center(w, h),
     heap |-> [a \in Addr |-> IF a = 3 THEN <<>> ELSE EmptyGrid(w, h)],
     grid |-> 1, solution |-> 2, initial_scrambled_grid |-> NoSnapshot,
     tile_types |-> NewList([c \in Cells(w, h) |-> BLANK]),
     user_move_count |-> 0, solving_animation_running |-> FALSE,
     visited |-> {}, visit_count |-> 0]

\* NetGameLogic(width, height): __init__ ends with new_game()
Constructed(w, h) == new_game(Fields(w, h))

IdleUI ==
    /\ ui_running = FALSE
    /\ greedy_solution_moves = <<>>
    /\ greedy_animation_index = 0
    /\ timers = 0

IsLogic(L) ==
    /\ width = L.width
    /\ height = L.height
    /\ server_pos = L.server_pos
    /\ heap = L.heap
    /\ grid = L.grid
    /\ solution = L.solution
    /\ initial_scrambled_grid = L.initial_scrambled_grid
    /\ tile_types = L.tile_types
    /\ user_move_count = L.user_move_count
    /\ solving_animation_running = L.solving_animation_running
    /\ visited = L.visited
    /\ visit_count = L.visit_count

InitOver(sizes) ==
    /\ \E s \in sizes : \E L \in Constructed(s[1], s[2]) : IsLogic(L)
    /\ IdleUI
    /\ ret = "None"

NewGame ==
    /\ \E L \in new_game(Logic) : SetLogic(L)
    /\ ret' = "None"
    /\ UNCHANGED ui_vars

ChangeSizeOver(sizes) ==
    /\ \E s \in sizes : \E L \in change_size(Logic, s[1], s[2]) : SetLogic(L)
    /\ ret' = "None"
    /\ UNCHANGED ui_vars

RestartGame ==
    /\ SetLogic(restart_game(Logic))
    /\ ret' = "None"
    /\ UNCHANGED ui_vars

LeftRotateAt(x, y) ==
    LET r == left_rotate_at(Logic, x, y)
    IN  /\ r.logic.user_move_count <= MaxMoves
        /\ SetLogic(r.logic)
        /\ ret' = r.ret
        /\ UNCHANGED ui_vars

RightRotateAt(x, y) ==
    LET r == right_rotate_at(Logic, x, y)
    IN  /\ r.logic.user_move_count <= MaxMoves
        /\ SetLogic(r.logic)
        /\ ret' = r.ret
        /\ UNCHANGED ui_vars

\* check_win(), get_connected_cells() and solve_with_tree_dp(self.grid) assign no
\* attribute and no list cell: what they return is the value of the operator
CheckWin ==
    /\ check_win(Logic) \in BOOLEAN
    /\ UNCHANGED vars

GetConnectedCells ==
    /\ get_connected_cells(Logic) \subseteq Cells(width, height)
    /\ UNCHANGED vars

Solve ==
    /\ Len(solve_with_tree_dp(Logic, heap[grid])) >= 0
    /\ UNCHANGED vars

----------------------------------------------------------------------------
(* NetGameUI: the handlers that reach the session *)

\* stop_solve_step
StopSolveStep ==
    /\ ui_running' = FALSE
    /\ ret' = "None"
    /\ UNCHANGED logic_vars
    /\ UNCHANGED <<greedy_solution_moves, greedy_animation_index, timers>>

\* NetGameUI.new_game
UINewGame ==
    /\ ui_running' = FALSE
    /\ \E L \in new_game(Logic) : SetLogic(L)
    /\ ret' = "None"
    /\ UNCHANGED <<greedy_solution_moves, greedy_animation_index, timers>>

\* NetGameUI.restart_game
UIRestartGame ==
    /\ ui_running' = FALSE
    /\ SetLogic(restart_game(Logic))
    /\ ret' = "None"
    /\ UNCHANGED <<greedy_solution_moves, greedy_animation_index, timers>>

\* NetGameUI.change_size
UIChangeSizeOver(sizes) ==
    /\ \E s \in sizes : \E L \in change_size(Logic, s[1], s[2]) : SetLogic(L)
    /\ ret' = "None"
    /\ UNCHANGED ui_vars

\* on_left_click with the event at cell (x, y)
OnLeftClick(x, y) ==
    IF ui_running \/ ~InBounds(x, y, width, height)
    THEN /\ ret' = "None"
         /\ UNCHANGED logic_vars
         /\ UNCHANGED ui_vars
    ELSE LET r == left_rotate_at(Logic, x, y)
         IN  /\ r.logic.user_move_count <= MaxMoves
             /\ SetLogic(r.logic)
             /\ ret' = "None"
             /\ UNCHANGED ui_vars

\* on_right_click with the event at cell (x, y)
OnRightClick(x, y) ==
    IF ui_running \/ ~InBounds(x, y, width, height)
    THEN /\ ret' = "None"
         /\ UNCHANGED logic_vars
         /\ UNCHANGED ui_vars
    ELSE LET r == right_rotate_at(Logic, x, y)
         IN  /\ r.logic.user_move_count <= MaxMoves
             /\ SetLogic(r.logic)
             /\ ret' = "None"
             /\ UNCHANGED ui_vars

\* the body of animate_greedy_step once it is known to be running: the session's
\* heap, the index, the flag and whether the next tick is scheduled
AnimateStep(hp, moves, index) ==
    IF index >= Len(moves)
    THEN [heap |-> hp, index |-> index, running |-> FALSE, scheduled |-> FALSE, ret |-> "None"]
    ELSE IF ~InBounds(moves[index + 1][1], moves[index + 1][2], width, height)
         THEN [heap |-> hp, index |-> index, running |-> TRUE, scheduled |-> FALSE,
               ret |-> "IndexError"]
         ELSE [heap |-> [hp EXCEPT ![grid] = ApplyMove(@, moves[index + 1])],
               index |-> index + 1, running |-> TRUE, scheduled |-> TRUE, ret |-> "None"]

\* start_solve_step, with its first animate_greedy_step call
StartSolveStep ==
    IF ui_running
    THEN /\ ret' = "None"
         /\ UNCHANGED logic_vars
         /\ UNCHANGED ui_vars
    ELSE LET moves == greedy_solve_full(Logic, heap[grid])
             a == AnimateStep(heap, moves, 0)
         IN  /\ greedy_solution_moves' = moves
             /\ IF Len(moves) = 0
                THEN /\ greedy_animation_index' = 0
                     /\ ret' = "None"
                     /\ UNCHANGED <<ui_running, timers, heap>>
                ELSE /\ timers < MaxTimers
                     /\ heap' = a.heap
                     /\ greedy_animation_index' = a.index
                     /\ ui_running' = a.running
                     /\ timers' = IF a.scheduled THEN timers + 1 ELSE timers
                     /\ ret' = a.ret
             /\ UNCHANGED <<width, height, server_pos, grid, solution,
                            initial_scrambled_grid, tile_types, user_move_count,
                            solving_animation_running, visited, visit_count>>

\* a pending root.after callback fires: animate_greedy_step
AnimateGreedyStep ==
    /\ timers > 0
    /\ IF ~ui_running
       THEN /\ timers' = timers - 1
            /\ ret' = "None"
            /\ UNCHANGED <<heap, greedy_animation_index, ui_running>>
       ELSE LET a == AnimateStep(heap, greedy_solution_moves, greedy_animation_index)
            IN  /\ heap' = a.heap
                /\ greedy_animation_index' = a.index
                /\ ui_running' = a.running
                /\ timers' = IF a.scheduled THEN timers ELSE timers - 1
                /\ ret' = a.ret
    /\ UNCHANGED <<width, height, server_pos, grid, solution, initial_scrambled_grid,
                   tile_types, user_move_count, solving_animation_running, visited,
                   visit_count, greedy_solution_moves>>

\* solve_now
SolveNow ==
    LET moves == greedy_solve_full(Logic, heap[grid])
    IN  /\ ui_running' = FALSE
        /\ heap' = [heap EXCEPT ![grid] = ApplyMoves(@, moves, 1)]
        /\ ret' = "None"
        /\ UNCHANGED <<width, height, server_pos, grid, solution, initial_scrambled_grid,
                       tile_types, user_move_count, solving_animation_running, visited,
                       visit_count, greedy_solution_moves, greedy_animation_index, timers>>

----------------------------------------------------------------------------
(* The session driven through the window *)

InitUI == InitOver(Sizes(UIMaxCells))

NextUI ==
    \/ UINewGame
    \/ UIRestartGame
    \/ UIChangeSizeOver(Sizes(UIMaxCells))
    \/ \E x \in 0..width, y \in 0..height : OnLeftClick(x, y)
    \/ \E x \in 0..width, y \in 0..height : OnRightClick(x, y)
    \/ StartSolveStep
    \/ StopSolveStep
    \/ SolveNow
    \/ AnimateGreedyStep

SpecUI == InitUI /\ [][NextUI]_vars

----------------------------------------------------------------------------
(* The session driven through its methods, and through solve_now *)

Init == InitOver(Sizes(MaxCells))

Next ==
    \/ NewGame
    \/ ChangeSizeOver(Sizes(MaxCells))
    \/ RestartGame
    \/ \E x \in Accepted(width), y \in Accepted(height) : LeftRotateAt(x, y)
    \/ \E x \in Accepted(width), y \in Accepted(height) : RightRotateAt(x, y)
    \/ CheckWin
    \/ GetConnectedCells
    \/ Solve
    \/ SolveNow

Spec == Init /\ [][Next]_vars

----------------------------------------------------------------------------
(* One puzzle between two generations: every call but new_game and          *)
(* change_size, the rotation calls with any coordinates                    *)

NextPlay ==
    \/ \E x \in Coords(width), y \in Coords(height) : LeftRotateAt(x, y)
    \/ \E x \in Coords(width), y \in Coords(height) : RightRotateAt(x, y)
    \/ RestartGame
    \/ CheckWin
    \/ GetConnectedCells
    \/ Solve
    \/ SolveNow

SpecPlay == Init /\ [][NextPlay]_vars

----------------------------------------------------------------------------
(* Generation alone: the call of new_game that ends __init__ *)

InitGen ==
    /\ \E s \in Sizes(GenMaxCells) : IsLogic(Fields(s[1], s[2]))
    /\ IdleUI
    /\ ret = "None"

\* self.new_game() at the end of __init__
Construct ==
    /\ initial_scrambled_grid = NoSnapshot
    /\ NewGame

NextGen == Construct

SpecGen == InitGen /\ [][NextGen]_vars

----------------------------------------------------------------------------
(* The solver on every rotation of a puzzle *)

RECURSIVE SumOver(_, _)
SumOver(f, S) ==
    IF S = {} THEN 0
    ELSE LET c == CHOOSE k \in S : TRUE IN f[c] + SumOver(f, S \ {c})

\* the session after left_rotate_at was called k[c] times on every cell c
Rotated(L, k) ==
    LET live == { c \in DOMAIN k : L.heap[L.grid][c] # NONE }
    IN  [L EXCEPT !.heap = [@ EXCEPT ![L.grid] =
                              NewList([c \in DOMAIN k |->
                                  IF c \in live THEN RotateTimes(@[c], k[c]) ELSE @[c]])],
                  !.user_move_count = SumOver(k, live)]

InitSolve ==
    /\ \E s \in Sizes(SolveMaxCells) : \E L \in Constructed(s[1], s[2]) :
          \E k \in [Cells(s[1], s[2]) -> 0..3] : IsLogic(Rotated(L, k))
    /\ IdleUI
    /\ ret = "None"

NextSolve ==
    \/ Solve
    \/ SolveNow
    \/ CheckWin
    \/ GetConnectedCells

SpecSolve == InitSolve /\ [][NextSolve]_vars

----------------------------------------------------------------------------
(* get_connected_cells on every grid of masks *)

\* a session whose live grid is g
WithGrid(w, h, g) ==
    [Fields(w, h) EXCEPT !.heap = [@ EXCEPT ![1] = NewList(g)]]

InitConn ==
    /\ \E s \in Sizes(ConnMaxCells) : \E g \in [Cells(s[1], s[2]) -> Masks] :
          IsLogic(WithGrid(s[1], s[2], g))
    /\ IdleUI
    /\ ret = "None"

NextConn == GetConnectedCells

SpecConn == InitConn /\ [][NextConn]_vars

----------------------------------------------------------------------------
(* solve_with_tree_dp on a start grid of the caller's *)

\* the start grids handed in: the live grid with the mask of one cell replaced
\* by any mask
Starts == { [heap[grid] EXCEPT ![c] = m] : c \in Cells(width, height), m \in Masks }

\* solve_with_tree_dp(start_grid): no statement of it raises and none assigns an
\* attribute or a cell; it returns the list collect_moves filled
SolveWith(start) ==
    /\ Len(solve_with_tree_dp(Logic, start)) >= 0
    /\ ret' = "List"
    /\ UNCHANGED logic_vars
    /\ UNCHANGED ui_vars

NextStart == \E start \in Starts : SolveWith(start)

SpecStart == Init /\ [][NextStart]_vars

----------------------------------------------------------------------------
(* change_size with any integers *)

\* largest width and height handed to change_size in SpecResize
MaxSide == 2

\* the widths and heights handed in: -1, 0 and the positive ones
ResizeArgs == (0 - 1)..MaxSide

\* change_size(w, h) with w <= 0 or h <= 0: width, height and server_pos are
\* assigned, new_game resets the count and the flag and builds three lists with
\* no cell, and self.tile_types[sy][sx] = TileType.SERVER raises IndexError; the
\* snapshot (and new_game's locals, not yet bound) stay as they were
change_size_raises(L, w, h) ==
    LET g == Alloc({L.initial_scrambled_grid})
        sl == Alloc({L.initial_scrambled_grid, g})
    IN  [L EXCEPT !.width = w, !.height = h, !.server_pos = Center(w, h),
                  !.user_move_count = 0,
                  !.solving_animation_running = FALSE,
                  !.heap = [@ EXCEPT ![g] = EmptyGrid(w, h), ![sl] = EmptyGrid(w, h)],
                  !.grid = g,
                  !.solution = sl,
                  !.tile_types = NewList([c \in Cells(w, h) |-> BLANK])]

\* change_size(w, h)
ChangeSize(w, h) ==
    /\ IF w > 0 /\ h > 0
       THEN /\ \E L \in change_size(Logic, w, h) : SetLogic(L)
            /\ ret' = "None"
       ELSE /\ SetLogic(change_size_raises(Logic, w, h))
            /\ ret' = "IndexError"
    /\ UNCHANGED ui_vars

InitResize == InitOver((1..MaxSide) \X (1..MaxSide))

NextResize == \E w \in ResizeArgs, h \in ResizeArgs : ChangeSize(w, h)

SpecResize == InitResize /\ [][NextResize]_vars

----------------------------------------------------------------------------
(* The rotation calls on every mask *)

\* largest number of cells of a grid in SpecTurn
TurnMaxCells == 2

InitTurn ==
    /\ \E s \in Sizes(TurnMaxCells) : \E g \in [Cells(s[1], s[2]) -> Masks] :
          IsLogic(WithGrid(s[1], s[2], g))
    /\ IdleUI
    /\ ret = "None"

NextTurn ==
    \/ \E x \in 0..(width - 1), y \in 0..(height - 1) : LeftRotateAt(x, y)
    \/ \E x \in 0..(width - 1), y \in 0..(height - 1) : RightRotateAt(x, y)

SpecTurn == InitTurn /\ [][NextTurn]_vars

----------------------------------------------------------------------------
(* Properties *)

AllCells == Cells(width, height)

\* mask m is mask t turned clockwise some number of quarter-turns
IsRotationOf(m, t) == \E k \in 0..3 : m = RotateTimes(t, k)

\* the cells of grid g with a non-empty mask
NonBlank(g) == { c \in DOMAIN g : g[c] # NONE }

\* the clockwise distance from mask m to mask t: the least k with m turned k times = t
cw_steps(m, t) ==
    CHOOSE k \in 0..3 : /\ RotateTimes(m, k) = t
                        /\ \A j \in 0..(k - 1) : RotateTimes(m, j) # t

\* the masks within n quarter-turns of m, each turn in either direction
RECURSIVE Within(_, _)
Within(m, n) ==
    IF n = 0 THEN {m}
    ELSE LET S == Within(m, n - 1)
         IN  S \cup { rotate_direction(q) : q \in S } \cup { rotate_direction_ccw(q) : q \in S }

\* the length of the shortest sequence of quarter-turns that takes m to t
MinTurns(m, t) ==
    CHOOSE n \in 0..4 : t \in Within(m, n) /\ \A j \in 0..(n - 1) : t \notin Within(m, j)

\* the moves the solver returns for the live grid
LiveMoves == solve_with_tree_dp(Logic, heap[grid])

\* C1: for a generated puzzle and a start grid whose every mask is a rotation of
\* the solution mask of its cell, playing the moves of solve_with_tree_dp (and of
\* greedy_solve_full) in order, 'cw' as rotate_direction and anything else as
\* rotate_direction_ccw on the named cell, gives the solution grid cell for cell.
SolverMovesReachSolution ==
    (\A c \in AllCells : IsRotationOf(heap[grid][c], heap[solution][c]))
    => /\ ApplyMoves(heap[grid], LiveMoves, 1) = heap[solution]
       /\ ApplyMoves(heap[grid], greedy_solve_full(Logic, heap[grid]), 1) = heap[solution]

\* a start grid off the solution for which the solver turns tiles both ways
SolverTurnsBothWays ==
    /\ Len(LiveMoves) >= 3
    /\ \E i, j \in 1..Len(LiveMoves) : LiveMoves[i][3] = "cw" /\ LiveMoves[j][3] = "ccw"
    /\ heap[grid] # heap[solution]
    /\ ApplyMoves(heap[grid], LiveMoves, 1) = heap[solution]

\* C2: for a start grid that is a per-cell rotation of the solution, the number of
\* moves solve_with_tree_dp returns is the sum over the cells of
\* min(cw_steps, 4 - cw_steps); a cell already at its solution mask gets no move,
\* and no sequence of single-tile quarter-turns reaching the solution is shorter.
MoveCountIsSumOfMinima ==
    (\A c \in AllCells : IsRotationOf(heap[grid][c], heap[solution][c]))
    => /\ Len(LiveMoves) =
            SumOver([c \in AllCells |->
                        LET k == cw_steps(heap[grid][c], heap[solution][c])
                        IN  IF k <= 4 - k THEN k ELSE 4 - k], AllCells)
       /\ \A c \in AllCells : heap[grid][c] = heap[solution][c]
            => \A i \in 1..Len(LiveMoves) : <<LiveMoves[i][1], LiveMoves[i][2]>> # c
       /\ Len(LiveMoves) =
            SumOver([c \in AllCells |-> MinTurns(heap[grid][c], heap[solution][c])], AllCells)

\* a start grid with one cell three clockwise turns away, one two away and one in place
MixedDistances ==
    /\ \E a, b, c \in AllCells :
          /\ cw_steps(heap[grid][a], heap[solution][a]) = 3
          /\ cw_steps(heap[grid][b], heap[solution][b]) = 2
          /\ heap[grid][c] = heap[solution][c] /\ heap[solution][c] # NONE
    /\ Len(LiveMoves) >= 3

\* cell b is the neighbour of cell a on some side, a's mask has the bit of that side
\* and b's mask the bit of the opposite side
Linked(g, a, b) ==
    \E i \in 1..4 :
        /\ b = <<a[1] + directions[i][1], a[2] + directions[i][2]>>
        /\ HasBit(g[a], directions[i][3])
        /\ HasBit(g[b], directions[i][4])

\* the cells that chains of linked cells reach from the cells of S
RECURSIVE Reachable(_, _)
Reachable(g, S) ==
    LET T == S \cup { b \in DOMAIN g : \E a \in S : Linked(g, a, b) }
    IN  IF T = S THEN S ELSE Reachable(g, T)

\* C3: after new_game on a grid of positive width and height, whatever the random
\* choices, the solution grid is a spanning tree rooted at the server: every cell
\* was visited exactly once (with two cells or more none keeps an empty mask),
\* every set bit is matched by the opposite bit of an in-bounds neighbour, all
\* cells are one component holding the server, and there are cells - 1 edges.
SolutionIsSpanningTree ==
    initial_scrambled_grid # NoSnapshot
    => LET sol == heap[solution]
       IN  /\ visited = AllCells
           /\ visit_count = Cardinality(AllCells)
           /\ Cardinality(AllCells) >= 2 => \A c \in AllCells : sol[c] # NONE
           /\ \A c \in AllCells : \A i \in 1..4 :
                 HasBit(sol[c], directions[i][3])
                 => LET n == <<c[1] + directions[i][1], c[2] + directions[i][2]>>
                    IN  /\ InBounds(n[1], n[2], width, height)
                        /\ HasBit(sol[n], directions[i][4])
           /\ server_pos \in AllCells
           /\ Reachable(sol, {server_pos}) = AllCells
           /\ SumOver([c \in AllCells |-> PopCount(sol[c])], AllCells)
                 = 2 * (Cardinality(AllCells) - 1)

\* a generated 3 x 2 puzzle whose server got three branches
ThreeBranchTree ==
    /\ initial_scrambled_grid # NoSnapshot
    /\ width = 3 /\ height = 2
    /\ PopCount(heap[solution][server_pos]) = 3
    /\ visited = AllCells

\* C4: in every state reached by new_game, change_size, left_rotate_at,
\* right_rotate_at, restart_game and solver playback, the live mask of each cell is
\* the solution mask of that cell turned clockwise k times for some k in 0..3, and
\* so is its snapshot mask; so the solver always brings the live grid to the solution.
LiveIsRotationOfSolution ==
    /\ \A c \in AllCells :
          /\ IsRotationOf(heap[grid][c], heap[solution][c])
          /\ IsRotationOf(heap[initial_scrambled_grid][c], heap[solution][c])
    /\ ApplyMoves(heap[grid], LiveMoves, 1) = heap[solution]

\* after user rotations the live grid is neither the snapshot nor the solution
TurnedAwayFromBoth ==
    /\ user_move_count = MaxMoves
    /\ ret = "True"
    /\ heap[grid] # heap[initial_scrambled_grid]
    /\ heap[grid] # heap[solution]
    /\ width = 2 /\ height = 2

\* the snapshot holds after the step what it held before
SnapshotKept == heap'[initial_scrambled_grid'] = heap[initial_scrambled_grid]

\* a step of left_rotate_at or right_rotate_at, whatever the coordinates
RotateStep ==
    \E x \in Coords(width), y \in Coords(height) :
        LeftRotateAt(x, y) \/ RightRotateAt(x, y)

\* C5: after any user rotations and solver playback following a generation,
\* restart_game() makes the live grid equal to the grid as it was right after
\* scrambling and user_move_count 0; a second restart_game() gives the same live
\* grid; rotations before or after a restart never change the snapshot, which
\* shares no cell with the live grid.  (A behaviour starts right after a
\* generation: there the snapshot is the scrambled live grid.)
RestartRestoresSnapshot ==
    /\ heap[initial_scrambled_grid] = heap[grid]
    /\ [](grid # initial_scrambled_grid)
    /\ [][/\ SnapshotKept \/ ~(RotateStep \/ SolveNow \/ RestartGame)
          /\ RestartGame
             => /\ heap'[grid'] = heap[initial_scrambled_grid]
                /\ user_move_count' = 0
                /\ LET again == restart_game(Logic')
                   IN  /\ again.heap[again.grid] = heap'[grid']
                       /\ again.user_move_count = 0
                       /\ again.heap[again.initial_scrambled_grid]
                             = heap[initial_scrambled_grid]]_vars

\* rotations have been made, the live grid has left the snapshot, and
\* restart_game brings it back with the count at 0
RestartUndoesRotations ==
    /\ user_move_count = MaxMoves
    /\ heap[grid] # heap[initial_scrambled_grid]
    /\ LET R == restart_game(Logic)
       IN  /\ R.heap[R.grid] = heap[initial_scrambled_grid]
           /\ R.heap[R.grid] # heap[grid]
           /\ R.user_move_count = 0

\* what a rotation call on the in-bounds cell (x, y) must leave, `turned` being
\* that cell's mask after the quarter-turn
RotatePost(x, y, turned) ==
    IF heap[grid][<<x, y>>] = NONE
    THEN /\ ret' = "False"
         /\ heap'[grid'] = heap[grid]
         /\ user_move_count' = user_move_count
    ELSE /\ ret' = "True"
         /\ heap'[grid'] = [heap[grid] EXCEPT ![<<x, y>>] = turned]
         /\ user_move_count' = user_move_count + 1

\* C6: left_rotate_at(x, y) and right_rotate_at(x, y) on an in-bounds cell: with an
\* empty live mask the call returns False and changes neither the live grid nor
\* user_move_count; otherwise only that cell's mask is replaced by its quarter-turn
\* (clockwise for left_rotate_at, counter-clockwise for right_rotate_at),
\* user_move_count grows by exactly 1 and the call returns True.
RotateContract ==
    [][\A x \in 0..(width - 1), y \in 0..(height - 1) :
          /\ LeftRotateAt(x, y)
             => RotatePost(x, y, rotate_direction(heap[grid][<<x, y>>]))
          /\ RightRotateAt(x, y)
             => RotatePost(x, y, rotate_direction_ccw(heap[grid][<<x, y>>]))]_vars

\* a second accepted rotation has just returned True on a 2 x 2 grid
SecondRotationAccepted ==
    /\ ret = "True"
    /\ user_move_count = 2
    /\ width = 2 /\ height = 2
    /\ Cardinality({ c \in AllCells : heap[grid][c] # heap[initial_scrambled_grid][c] }) = 2

\* C7: between two generations no operation changes the solution grid, the tile
\* classifications or the server position: left_rotate_at, right_rotate_at,
\* restart_game, check_win, get_connected_cells, solve_with_tree_dp and solver
\* playback leave them as the last generation set them.
SolutionFrame ==
    [][\/ /\ heap'[solution'] = heap[solution]
          /\ tile_types' = tile_types
          /\ server_pos' = server_pos
       \/ ~(RotateStep \/ RestartGame \/ CheckWin \/ GetConnectedCells \/ Solve \/ SolveNow)]_vars

\* after rotations and playback the classification is still the one generation
\* derived from the solution
SolvedAfterRotations ==
    /\ user_move_count = MaxMoves
    /\ heap[grid] = heap[solution]
    /\ heap[grid] # heap[initial_scrambled_grid]
    /\ tile_types = Classify(heap[solution], server_pos, width, height)
    /\ Cardinality(AllCells) = MaxCells

\* C8: for any masks 0..15 in the live grid, get_connected_cells() is exactly the
\* set of cells reachable from the server by steps between in-bounds adjacent
\* cells whose masks point at each other; it always holds the server and is
\* {server} when the server's mask is empty or no neighbour reciprocates.
ConnectedIsMutualReachability ==
    LET connected == get_connected_cells(Logic)
    IN  /\ connected = Reachable(heap[grid], {server_pos})
        /\ server_pos \in connected
        /\ (heap[grid][server_pos] = NONE
            \/ \A b \in AllCells : ~Linked(heap[grid], server_pos, b))
           => connected = {server_pos}

\* the server points at a neighbour that does not point back, and still reaches
\* two other cells
OneSidedPipeIgnored ==
    /\ \E b \in AllCells, i \in 1..4 :
          /\ b = <<server_pos[1] + directions[i][1], server_pos[2] + directions[i][2]>>
          /\ HasBit(heap[grid][server_pos], directions[i][3])
          /\ ~HasBit(heap[grid][b], directions[i][4])
          /\ b \notin get_connected_cells(Logic)
    /\ Cardinality(get_connected_cells(Logic)) = 3

\* the session with every move of the solver for the live grid applied
Solved == [Logic EXCEPT !.heap = [@ EXCEPT ![grid] = ApplyMoves(@, LiveMoves, 1)]]

\* C9 (amended): after all moves the solver returns for the live grid have been
\* applied, get_connected_cells() is the set of the cells whose solution mask is
\* non-empty together with the server cell, that is every cell of the grid.
SolvedGridConnectsAll ==
    /\ get_connected_cells(Solved) = NonBlank(heap[solution]) \cup {server_pos}
    /\ get_connected_cells(Solved) = AllCells

\* C9 as stated: after all solver moves have been applied, get_connected_cells()
\* equals the set of all cells whose solution mask is non-empty.
SolvedGridConnectsNonBlank ==
    get_connected_cells(Solved) = NonBlank(heap[solution])

\* a four-cell grid the server does not reach all of, which the solver's moves
\* (three or more) turn into one where it does
SolvingConnectsTheRest ==
    /\ Cardinality(AllCells) = 4
    /\ Len(LiveMoves) >= 3
    /\ get_connected_cells(Logic) # AllCells
    /\ get_connected_cells(Solved) = AllCells

\* C10 as stated: a rotation asked for a coordinate outside the grid is rejected
\* by left_rotate_at / right_rotate_at: the call fails, no cell of the live grid
\* is rotated and user_move_count is unchanged.
OutOfBoundsRotationRejected ==
    [][\A x \in Coords(width), y \in Coords(height) :
          (~InBounds(x, y, width, height) /\ (LeftRotateAt(x, y) \/ RightRotateAt(x, y)))
          => /\ ret' \in {"False", "IndexError"}
             /\ heap'[grid'] = heap[grid]
             /\ user_move_count' = user_move_count]_vars

\* every mask of grid g is a rotation of the solution mask of its cell
IsRotationGrid(g) == \A c \in AllCells : IsRotationOf(g[c], heap[solution][c])

\* some move of the list names cell c
Names(moves, c) == \E i \in 1..Len(moves) : <<moves[i][1], moves[i][2]>> = c

\* C11 as stated: given a start grid in which some cell's mask is not a rotation
\* of that cell's solution mask, solve_with_tree_dp surfaces an error outcome
\* instead of returning a move list, and does not pad the cell with moves.
BadStartSurfaced ==
    [][\A start \in Starts :
          (SolveWith(start) /\ ~IsRotationGrid(start))
          => /\ ret' # "List"
             /\ \A c \in AllCells :
                   ~IsRotationOf(start[c], heap[solution][c])
                   => ~Names(solve_with_tree_dp(Logic, start), c)]_vars

\* C12 as stated: change_size(width, height) with width <= 0 or height <= 0 is
\* rejected before generation starts: width, height, server_pos, the live grid,
\* the solution grid, the tile classifications, the snapshot and user_move_count
\* of the session are all left unchanged.
NonPositiveSizeRejected ==
    [][\A w \in ResizeArgs, h \in ResizeArgs :
          ((w <= 0 \/ h <= 0) /\ ChangeSize(w, h))
          => /\ width' = width /\ height' = height /\ server_pos' = server_pos
             /\ heap'[grid'] = heap[grid]
             /\ heap'[solution'] = heap[solution]
             /\ tile_types' = tile_types
             /\ heap'[initial_scrambled_grid'] = heap[initial_scrambled_grid]
             /\ user_move_count' = user_move_count]_vars

\* C13: for every mask m in 0..15, rotate_direction_ccw(rotate_direction(m)) = m,
\* rotate_direction(rotate_direction_ccw(m)) = m and four applications of
\* rotate_direction give m back; rotate_direction carries the bit up to right,
\* right to down, down to left and left to up, so the number of set bits is kept.
RotationAlgebra ==
    \A c \in AllCells :
        LET m == heap[grid][c]
            t == rotate_direction(m)
        IN  /\ m \in Masks /\ t \in Masks /\ rotate_direction_ccw(m) \in Masks
            /\ rotate_direction_ccw(t) = m
            /\ rotate_direction(rotate_direction_ccw(m)) = m
            /\ rotate_direction(rotate_direction(rotate_direction(t))) = m
            /\ HasBit(t, RIGHT) <=> HasBit(m, UP)
            /\ HasBit(t, DOWN) <=> HasBit(m, RIGHT)
            /\ HasBit(t, LEFT) <=> HasBit(m, DOWN)
            /\ HasBit(t, UP) <=> HasBit(m, LEFT)
            /\ PopCount(t) = PopCount(m)

\* two rotations were accepted on a grid holding a cross and a mask whose LEFT
\* bit a clockwise turn carries round to UP
TurnedWithWrap ==
    /\ ret = "True"
    /\ user_move_count = 2
    /\ \E c, d \in AllCells :
          /\ heap[grid][c] = UP + RIGHT + DOWN + LEFT
          /\ heap[grid][d] = UP + LEFT

\* the in-bounds neighbours of the server cell
ServerNeighbours ==
    { n \in AllCells : \E i \in 1..4 :
        n = <<server_pos[1] + directions[i][1], server_pos[2] + directions[i][2]>> }

\* the number of bits set in the server's solution mask
ServerDegree == PopCount(heap[solution][server_pos])

\* C14 (amended): after generation, for every random outcome, the server cell has
\* degree at least 2 whenever it has at least two in-bounds neighbours, which is
\* so on every grid but 1x1, 1x2 and 2x1; on those its degree is the number of its
\* neighbours, 0 or 1.
ServerDegreeAtLeastTwoIfRoom ==
    initial_scrambled_grid # NoSnapshot
    => /\ Cardinality(ServerNeighbours) >= 2 => ServerDegree >= 2
       /\ Cardinality(ServerNeighbours) < 2 => ServerDegree = Cardinality(ServerNeighbours)
       /\ Cardinality(ServerNeighbours) < 2 <=> width * height <= 2

\* C14 as stated: after generation on any grid of positive width and height the
\* server's solution mask has at least 2 bits set.
ServerDegreeAtLeastTwo ==
    initial_scrambled_grid # NoSnapshot => ServerDegree >= 2

\* a generated 3 x 2 puzzle whose server, with three neighbours, got two branches
TwoBranchesOfThree ==
    /\ initial_scrambled_grid # NoSnapshot
    /\ width = 3 /\ height = 2
    /\ Cardinality(ServerNeighbours) = 3
    /\ ServerDegree = 2

\* the class the rule gives a cell that is not the server, from a mask
ClassOf(m) ==
    IF PopCount(m) = 0 THEN BLANK
    ELSE IF PopCount(m) = 1 THEN ENDPOINT
    ELSE JUNCTION

\* the 3 x 3 grid with the edges server-(2,1), server-(1,2) and (2,1)-(2,2)
ExampleTree ==
    [c \in Cells(3, 3) |->
        IF c = <<1, 1>> THEN RIGHT + DOWN
        ELSE IF c = <<2, 1>> THEN LEFT + DOWN
        ELSE IF c = <<1, 2>> THEN UP
        ELSE IF c = <<2, 2>> THEN UP
        ELSE NONE]

\* C15: after generation the cell (width // 2, height // 2) is classified SERVER
\* whatever its degree, and every other cell is classified from the number of
\* bits of its solution mask: 1 bit ENDPOINT, 2 or more JUNCTION, 0 BLANK; on the
\* 3x3 grid with the tree server-(2,1), server-(1,2), (2,1)-(2,2) the loop gives
\* (1,1) server, (2,1) junction, (1,2) endpoint, (2,2) endpoint.
ClassifiedFromSolution ==
    /\ initial_scrambled_grid # NoSnapshot
       => /\ server_pos = <<width \div 2, height \div 2>>
          /\ tile_types[server_pos] = SERVER
          /\ \A c \in AllCells \ {server_pos} :
                tile_types[c] = ClassOf(heap[solution][c])
    /\ LET t == Classify(ExampleTree, Center(3, 3), 3, 3)
       IN  /\ t[<<1, 1>>] = SERVER
           /\ t[<<2, 1>>] = JUNCTION
           /\ t[<<1, 2>>] = ENDPOINT
           /\ t[<<2, 2>>] = ENDPOINT

\* a generated 2 x 3 puzzle with a three-way junction beside the server and an
\* endpoint whose scrambled mask is not its solution mask
JunctionAndEndpoints ==
    /\ initial_scrambled_grid # NoSnapshot
    /\ width = 2 /\ height = 3
    /\ \E c, d \in AllCells \ {server_pos} :
          /\ PopCount(heap[solution][c]) = 3 /\ tile_types[c] = JUNCTION
          /\ tile_types[d] = ENDPOINT /\ heap[grid][d] # heap[solution][d]

\* the least number of counter-clockwise quarter-turns that take m to t, a
\* counter-clockwise turn being three clockwise ones
ccw_steps(m, t) ==
    CHOOSE k \in 0..3 : /\ RotateTimes(m, 3 * k) = t
                        /\ \A j \in 0..(k - 1) : RotateTimes(m, 3 * j) # t

\* the positions of the moves that name cell c
MovesAt(moves, c) == { i \in 1..Len(moves) : <<moves[i][1], moves[i][2]>> = c }

\* C16: for each tile whose start mask differs from its solution mask the moves
\* of solve_with_tree_dp that name it stand together, all have one direction and
\* are as many as the smaller of the clockwise and counter-clockwise step counts,
\* 'cw' when the counts are equal: two 'cw' for a tile two quarter-turns away,
\* one 'ccw' for a tile three clockwise steps away, one 'cw' for up|down or
\* left|right a quarter-turn away.
TileMovesOneDirection ==
    \A c \in AllCells : heap[grid][c] # heap[solution][c] =>
        LET m == heap[grid][c]
            t == heap[solution][c]
            at == MovesAt(LiveMoves, c)
            dir == IF cw_steps(m, t) <= ccw_steps(m, t) THEN "cw" ELSE "ccw"
            n == IF cw_steps(m, t) <= ccw_steps(m, t) THEN cw_steps(m, t) ELSE ccw_steps(m, t)
        IN  /\ Cardinality(at) = n
            /\ \A i \in at : LiveMoves[i][3] = dir
            /\ \A i, j \in at : \A q \in i..j : q \in at
            /\ cw_steps(m, t) = 2 => n = 2 /\ dir = "cw"
            /\ cw_steps(m, t) = 3 => n = 1 /\ dir = "ccw"
            /\ m \in {UP + DOWN, LEFT + RIGHT} => n = 1 /\ dir = "cw"

\* a start grid with a straight tile a quarter-turn away, a tile two turns away
\* and a tile three clockwise turns away, each with its moves in the plan
StraightHalfAndThreeQuarter ==
    \E a, b, c \in AllCells :
        /\ heap[grid][a] \in {UP + DOWN, LEFT + RIGHT}
        /\ heap[grid][a] # heap[solution][a]
        /\ \E i \in MovesAt(LiveMoves, a) : LiveMoves[i][3] = "cw"
        /\ cw_steps(heap[grid][b], heap[solution][b]) = 2
        /\ Cardinality(MovesAt(LiveMoves, b)) = 2
        /\ cw_steps(heap[grid][c], heap[solution][c]) = 3
        /\ \E i \in MovesAt(LiveMoves, c) : LiveMoves[i][3] = "ccw"

\* the moves of the plan that the playback has not applied yet
PlanRest ==
    SubSeq(greedy_solution_moves, greedy_animation_index + 1, Len(greedy_solution_moves))

\* while the playback runs, the rest of its plan addresses cells of the live grid
\* and takes the live grid to the solution of the live puzzle
PlanFitsLiveGrid ==
    ui_running =>
        /\ \A i \in 1..Len(PlanRest) :
              InBounds(PlanRest[i][1], PlanRest[i][2], width, height)
        /\ ApplyMoves(heap[grid], PlanRest, 1) = heap[solution]

\* a step that changes the live grid while the playback runs is the next move of
\* the plan, or it leaves the playback stopped
OnlyPlanMovesWhileRunning ==
    \/ ~ui_running
    \/ (grid' = grid /\ heap'[grid'] = heap[grid] /\ width' = width /\ height' = height)
    \/ ~ui_running'
    \/ /\ grid' = grid /\ solution' = solution /\ width' = width /\ height' = height
       /\ greedy_solution_moves' = greedy_solution_moves
       /\ greedy_animation_index' = greedy_animation_index + 1
       /\ greedy_animation_index < Len(greedy_solution_moves)
       /\ heap'[grid] = ApplyMove(heap[grid], greedy_solution_moves[greedy_animation_index + 1])

\* C17 as stated: while a step-by-step playback runs, every move it applies is
\* applied to the puzzle the plan was computed for, in a grid reached from the
\* plan's start grid by the plan's earlier moves only: clicks do not rotate tiles,
\* and new game, restart, solve now and change of size stop the playback before
\* they change the grid, so no move of the plan is stale or outside the grid.
PlaybackNotInterleaved ==
    /\ []PlanFitsLiveGrid
    /\ [][OnlyPlanMovesWhileRunning]_vars

\* C18: right after new_game (from the constructor or change_size) on a grid of
\* two cells or more check_win() is false whatever the random choices: the server
\* tile keeps its solution mask, the tree has a tile other than the server with a
\* one-bit mask, and the 1 to 3 clockwise turns of the scramble leave every such
\* tile off its solution mask; on a 1 x 1 grid the fresh puzzle is solved.
FreshPuzzleUnsolved ==
    initial_scrambled_grid # NoSnapshot =>
        /\ heap[grid][server_pos] = heap[solution][server_pos]
        /\ Cardinality(AllCells) >= 2 =>
              /\ ~check_win(Logic)
              /\ \E c \in AllCells \ {server_pos} : PopCount(heap[solution][c]) = 1
              /\ \A c \in AllCells \ {server_pos} :
                    PopCount(heap[solution][c]) = 1 => heap[grid][c] # heap[solution][c]
        /\ Cardinality(AllCells) = 1 => check_win(Logic)

\* a fresh puzzle in which the scramble turned a straight tile back onto its
\* solution mask and which is unsolved all the same
StraightTileBackInPlace ==
    /\ initial_scrambled_grid # NoSnapshot
    /\ Cardinality(AllCells) >= 2
    /\ \E c \in AllCells \ {server_pos} :
          /\ heap[solution][c] \in {UP + DOWN, LEFT + RIGHT}
          /\ heap[grid][c] = heap[solution][c]
    /\ ~check_win(Logic)

====
